---- MODULE Spec2Model ----
(***************************************************************************)
(* Model of the Miniflux connector for Tapestry                            *)
(* (src/ch.alienlebarge.miniflux/plugin.js).                               *)
(*                                                                         *)
(* The host owns the ambient configuration (site, apiToken, limit) and     *)
(* calls the three entry points verify(), load() and performAction().      *)
(* Each call is an invocation; an invocation that issued sendRequest()     *)
(* stays pending until the host's HTTP facility fulfils or rejects the     *)
(* promise, and then the connector's then/catch handlers run.              *)
(***************************************************************************)
EXTENDS Integers, Sequences, FiniteSets, TLC

\* Number of invocations the host keeps at once (in flight or completed).
MaxInv == 1
\* Longest entries array of a server response.
MaxEntries == 2

----------------------------------------------------------------------------
\* JavaScript values

Undefined == [t |-> "undefined"]
Null == [t |-> "null"]
Str(s) == [t |-> "string", v |-> s]
Num(n) == [t |-> "number", v |-> n]
Bool(b) == [t |-> "boolean", v |-> b]
Obj(f) == [t |-> "object", v |-> f]
Arr(s) == [t |-> "array", v |-> s]
Err(m) == [t |-> "error", message |-> m]

\* obj.key : undefined when the property is absent
Get(obj, key) == IF key \in DOMAIN obj THEN obj[key] ELSE Undefined

\* ToBoolean, as used by !x, x || y and x ? a : b
Truthy(x) ==
    CASE x.t = "undefined" -> FALSE
      [] x.t = "null" -> FALSE
      [] x.t = "string" -> x.v # ""
      [] x.t = "number" -> x.v # 0
      [] x.t = "boolean" -> x.v
      [] OTHER -> TRUE

\* ToString, as used by the + operator with a string operand
ToStr(x) ==
    CASE x.t = "undefined" -> "undefined"
      [] x.t = "null" -> "null"
      [] x.t = "string" -> x.v
      [] x.t = "number" -> ToString(x.v)
      [] x.t = "boolean" -> IF x.v THEN "true" ELSE "false"
      [] OTHER -> "[object Object]"

\* String.prototype.includes
Includes(s, sub) ==
    \E k \in 1..(Len(s) - Len(sub) + 1) : SubSeq(s, k, k + Len(sub) - 1) = sub

\* s.replace(/\/$/, "") : removes one trailing slash
StripTrailingSlash(s) ==
    IF Len(s) > 0 /\ SubSeq(s, Len(s), Len(s)) = "/"
    THEN SubSeq(s, 1, Len(s) - 1)
    ELSE s

Digits == ("0" :> 0) @@ ("1" :> 1) @@ ("2" :> 2) @@ ("3" :> 3) @@ ("4" :> 4) @@
          ("5" :> 5) @@ ("6" :> 6) @@ ("7" :> 7) @@ ("8" :> 8) @@ ("9" :> 9)

NaN == [t |-> "NaN"]

RECURSIVE ParseDigits(_, _, _)
ParseDigits(s, k, acc) ==
    IF k > Len(s) \/ SubSeq(s, k, k) \notin DOMAIN Digits
    THEN acc
    ELSE ParseDigits(s, k + 1, acc * 10 + Digits[SubSeq(s, k, k)])

\* Mutant: the string is passed on without parseInt
ParseInt_asString(s) == Str(s)

\* parseInt(s) on a string without sign or leading blanks
ParseInt(s) ==
    IF Len(s) = 0 \/ SubSeq(s, 1, 1) \notin DOMAIN Digits
    THEN NaN
    ELSE Num(ParseDigits(s, 1, 0))

----------------------------------------------------------------------------
\* Inputs of the host and of the server

Sites == {"", "https://m.io", "https://m.io/"}
Tokens == {"", "tok"}
Limits == {Str(""), Str("50")}
\* Date.now() / 1000, floored
Clock == {1000000}

\* Error messages the HTTP facility rejects the entries and update calls with
FailureMessages == {"timeout", "HTTP 500"}

\* Error messages the HTTP facility rejects the user-info call with
ErrorMessages ==
    {"", "HTTP 401", "HTTP 404", "timeout", "404 for 401", "timeout 404", "HTTP 500"}

\* Messages of the SyntaxError JSON.parse throws (engine- and body-dependent)
ParseErrorMessages == {"JSON Parse error", "JSON Parse error: 401"}
\* Message of the TypeError a property read on null throws
NullErrorMessage == "null is not an object"

entryA ==
    [id |-> Num(10), url |-> Str("https://a/1"), title |-> Str("A"),
     published_at |-> Str("2026-01-14"), status |-> Str("unread"),
     starred |-> Bool(TRUE)]
entryB ==
    [id |-> Num(11), url |-> Str("https://b/2"),
     published_at |-> Str("2026-01-13"), status |-> Str("read"),
     starred |-> Bool(FALSE)]
Entries == {entryA, entryB}

EntrySeqs == UNION {[1..n -> Entries] : n \in 0..MaxEntries}

\* Response bodies (JSON text, by what it parses to)
InvalidBody == [json |-> "invalid"]
NullBody == [json |-> "null"]
ObjBody(f) == [json |-> "object", obj |-> f]

UserBodies ==
    {InvalidBody, NullBody, ObjBody([username |-> Str("alice")]),
     ObjBody([id |-> Num(1)])}
EntriesBodies ==
    {InvalidBody, NullBody, ObjBody([total |-> Num(0)])}
    \cup {ObjBody([total |-> Num(Len(es)), entries |-> Arr(es)]) : es \in EntrySeqs}
\* PUT /v1/entries answers 204 with an empty body
UpdateBodies == {InvalidBody}

ActionIds == {"mark_as_read", "mark_as_unread", "star", "unstar", "share"}

----------------------------------------------------------------------------
\* State

VARIABLES
    site,       \* ambient configuration: instance URL
    apiToken,   \* ambient configuration: API token
    limit,      \* ambient configuration: number of articles to fetch
    inv         \* the invocations of the entry points, by slot

vars == <<site, apiToken, limit, inv>>

Slots == 1..MaxInv

Idle ==
    [kind |-> "none", state |-> "idle", http |-> "none",
     requests |-> <<>>, verifications |-> <<>>, errors |-> <<>>,
     results |-> <<>>, reply |-> Undefined, value |-> Undefined,
     actionId |-> "", actionValue |-> "", item |-> Undefined]

Init ==
    /\ site = ""
    /\ apiToken = ""
    /\ limit = Str("")
    /\ inv = [i \in Slots |-> Idle]

----------------------------------------------------------------------------
\* Helper functions of plugin.js

getAuthHeaders ==
    ("X-Auth-Token" :> apiToken) @@ ("Content-Type" :> "application/json")

Request(url, method, body) ==
    [url |-> url, method |-> method, body |-> body, headers |-> getAuthHeaders]

buildEntriesUrl(now) ==
    LET baseUrl == StripTrailingSlash(site)
        url == baseUrl \o "/v1/entries?status=unread&order=published_at&direction=desc"
        oneDayAgo == now - (1 * 24 * 60 * 60)
        articleLimit == IF Truthy(limit) THEN limit ELSE Num(10)
    IN url \o "&published_after=" \o ToString(oneDayAgo)
           \o "&limit=" \o ToStr(articleLimit)

\* Mutant: the uri is the url followed by the id, without the "#"
convertEntryToItem_noSeparator(entry) ==
    LET uri == ToStr(Get(entry, "url")) \o ToStr(Get(entry, "id"))
        date == [t |-> "date", v |-> ToStr(Get(entry, "published_at"))]
    IN Obj([uri |-> Str(uri), date |-> date, title |-> Get(entry, "title")])

convertEntryToItem(entry) ==
    LET uri == ToStr(Get(entry, "url")) \o "#" \o ToStr(Get(entry, "id"))
        date == [t |-> "date", v |-> ToStr(Get(entry, "published_at"))]
    IN Obj([uri |-> Str(uri), date |-> date, title |-> Get(entry, "title")])

\* JSON.parse(response): the parsed value, or the SyntaxError it throws
JSONParse(body, syntaxMessage) ==
    CASE body.json = "invalid" -> [threw |-> TRUE, value |-> Err(syntaxMessage)]
      [] body.json = "null" -> [threw |-> FALSE, value |-> Null]
      [] OTHER -> [threw |-> FALSE, value |-> Obj(body.obj)]

\* The response body string a sendRequest promise is fulfilled with
Response(body) == [t |-> "response", v |-> body]

----------------------------------------------------------------------------
\* The host changes the ambient configuration

SetConfig(s, t, l) ==
    /\ <<s, t, l>> # <<site, apiToken, limit>>
    /\ site' = s
    /\ apiToken' = t
    /\ limit' = l
    /\ UNCHANGED inv

\* The host forgets a completed invocation
Release(i) ==
    /\ inv[i].state \in {"resolved", "rejected"}
    /\ inv' = [inv EXCEPT ![i] = Idle]
    /\ UNCHANGED <<site, apiToken, limit>>

----------------------------------------------------------------------------
\* verify()

\* Mutant: if (!site && !apiToken)
verifyIncomplete_bothMissing == ~Truthy(Str(site)) /\ ~Truthy(Str(apiToken))

\* if (!site || !apiToken)
verifyIncomplete == ~Truthy(Str(site)) \/ ~Truthy(Str(apiToken))

verify(i) ==
    /\ inv[i].kind = "none"
    /\ IF verifyIncomplete
       THEN inv' = [inv EXCEPT ![i] =
                [Idle EXCEPT !.kind = "verify", !.state = "resolved"]]
       ELSE LET baseUrl == StripTrailingSlash(site)
                verifyUrl == baseUrl \o "/v1/me"
            IN inv' = [inv EXCEPT ![i] =
                [Idle EXCEPT !.kind = "verify", !.state = "pending",
                             !.http = "pending",
                             !.requests = <<Request(verifyUrl, "GET", Null)>>]]
    /\ UNCHANGED <<site, apiToken, limit>>

\* Mutant: the 404 marker is looked for before the 401 marker
verifyErrorMessage_404First(message) ==
    IF Includes(message, "404")
    THEN "Miniflux instance not found. Please check your instance URL."
    ELSE IF Includes(message, "401")
    THEN "Authentication failed. Please check your API token."
    ELSE IF Includes(message, "timeout")
    THEN "Request timeout. Please check your internet connection."
    ELSE IF Truthy(Str(message))
    THEN "Connection error: " \o message
    ELSE "Failed to connect to Miniflux"

\* The user-facing message the catch handler selects
verifyErrorMessage(message) ==
    IF Includes(message, "401")
    THEN "Authentication failed. Please check your API token."
    ELSE IF Includes(message, "404")
    THEN "Miniflux instance not found. Please check your instance URL."
    ELSE IF Includes(message, "timeout")
    THEN "Request timeout. Please check your internet connection."
    ELSE IF Truthy(Str(message))
    THEN "Connection error: " \o message
    ELSE "Failed to connect to Miniflux"

\* Mutant: the catch handler sends the request once more
verifyCatch_retry(r, error) ==
    [r EXCEPT !.errors = Append(@, verifyErrorMessage(error.message)),
              !.requests = Append(@, @[1]),
              !.state = "rejected",
              !.value = error]

\* Mutant: the catch handler reports the error and does not reject
verifyCatch_noReject(r, error) ==
    [r EXCEPT !.errors = Append(@, verifyErrorMessage(error.message)),
              !.state = "resolved",
              !.value = Undefined]

\* .catch(function(error) {...}) of verify()
verifyCatch(r, error) ==
    [r EXCEPT !.errors = Append(@, verifyErrorMessage(error.message)),
              !.state = "rejected",
              !.value = error]

\* Mutant: the display name is built from the site, read when the response arrives
verifyThen_siteInName(r, body, syntaxMessage) ==
    LET parsed == JSONParse(body, syntaxMessage)
        userData == parsed.value
    IN IF parsed.threw
       THEN verifyCatch(r, parsed.value)
       ELSE IF userData.t = "null"
       THEN verifyCatch(r, Err(NullErrorMessage))
       ELSE [r EXCEPT !.verifications =
                        Append(@, [displayName |-> "Miniflux (" \o site \o ")"]),
                      !.state = "resolved",
                      !.value = Response(body)]

\* Mutant: the display name never uses the username
verifyThen_genericName(r, body, syntaxMessage) ==
    LET parsed == JSONParse(body, syntaxMessage)
        userData == parsed.value
    IN IF parsed.threw
       THEN verifyCatch(r, parsed.value)
       ELSE IF userData.t = "null"
       THEN verifyCatch(r, Err(NullErrorMessage))
       ELSE [r EXCEPT !.verifications = Append(@, [displayName |-> "Miniflux Feed"]),
                      !.state = "resolved",
                      !.value = Response(body)]

\* .then(function(response) {...}) of verify(); a throw goes to the catch handler
verifyThen(r, body, syntaxMessage) ==
    LET parsed == JSONParse(body, syntaxMessage)
        userData == parsed.value
        username == Get(userData.v, "username")
        displayName == IF Truthy(username)
                       THEN "Miniflux (" \o ToStr(username) \o ")"
                       ELSE "Miniflux Feed"
    IN IF parsed.threw
       THEN verifyCatch(r, parsed.value)
       ELSE IF userData.t = "null"
       THEN verifyCatch(r, Err(NullErrorMessage))
       ELSE [r EXCEPT !.verifications = Append(@, [displayName |-> displayName]),
                      !.state = "resolved",
                      !.value = Response(body)]

verifyFulfilled(i, body, syntaxMessage) ==
    /\ inv[i].kind = "verify"
    /\ inv[i].http = "pending"
    /\ inv' = [inv EXCEPT ![i] =
            verifyThen([@ EXCEPT !.http = "ok", !.reply = Response(body)],
                       body, syntaxMessage)]
    /\ UNCHANGED <<site, apiToken, limit>>

verifyRejected(i, message) ==
    /\ inv[i].kind = "verify"
    /\ inv[i].http = "pending"
    /\ inv' = [inv EXCEPT ![i] =
            verifyCatch([@ EXCEPT !.http = "failed", !.reply = Err(message)],
                        Err(message))]
    /\ UNCHANGED <<site, apiToken, limit>>

----------------------------------------------------------------------------
\* load()

load(i, now) ==
    /\ inv[i].kind = "none"
    /\ LET url == buildEntriesUrl(now)
       IN inv' = [inv EXCEPT ![i] =
            [Idle EXCEPT !.kind = "load", !.state = "pending",
                         !.http = "pending",
                         !.requests = <<Request(url, "GET", Null)>>]]
    /\ UNCHANGED <<site, apiToken, limit>>

\* Mutant: the loop walks the entries from the last to the first
loadItems_reversed(entries) ==
    [k \in 1..Len(entries) |-> convertEntryToItem(entries[Len(entries) - k + 1])]

\* for (var i = 0; i < data.entries.length; i++) items.push(convertEntryToItem(...))
loadItems(entries) ==
    [k \in 1..Len(entries) |-> convertEntryToItem(entries[k])]

\* .then(function(response) {...}) of load(); a throw rejects the promise
loadThen(r, body, syntaxMessage) ==
    LET parsed == JSONParse(body, syntaxMessage)
        data == parsed.value
        entries == Get(data.v, "entries")
        items == IF Truthy(entries) /\ Len(entries.v) > 0
                 THEN loadItems(entries.v)
                 ELSE <<>>
    IN IF parsed.threw
       THEN [r EXCEPT !.state = "rejected", !.value = parsed.value]
       ELSE IF data.t = "null"
       THEN [r EXCEPT !.state = "rejected", !.value = Err(NullErrorMessage)]
       ELSE [r EXCEPT !.state = "resolved", !.value = Arr(items)]

loadFulfilled(i, body, syntaxMessage) ==
    /\ inv[i].kind = "load"
    /\ inv[i].http = "pending"
    /\ inv' = [inv EXCEPT ![i] =
            loadThen([@ EXCEPT !.http = "ok", !.reply = Response(body)],
                     body, syntaxMessage)]
    /\ UNCHANGED <<site, apiToken, limit>>

\* load() has no catch handler: the rejection passes through
loadRejected(i, message) ==
    /\ inv[i].kind = "load"
    /\ inv[i].http = "pending"
    /\ inv' = [inv EXCEPT ![i] =
            [@ EXCEPT !.http = "failed", !.reply = Err(message),
                      !.state = "rejected", !.value = Err(message)]]
    /\ UNCHANGED <<site, apiToken, limit>>

----------------------------------------------------------------------------
\* performAction(actionId, actionValue, item)

performAction(i, actionId, actionValue, item) ==
    /\ inv[i].kind = "none"
    /\ LET called == [Idle EXCEPT !.kind = "performAction",
                                  !.actionId = actionId,
                                  !.actionValue = actionValue,
                                  !.item = item]
           baseUrl == StripTrailingSlash(site)
           updateUrl == baseUrl \o "/v1/entries"
           requestBody == Obj([entry_ids |-> <<ParseInt(actionValue)>>,
                               status |-> "read"])
       IN IF actionId # "mark_as_read"
          THEN inv' = [inv EXCEPT ![i] = [called EXCEPT !.state = "resolved"]]
          ELSE inv' = [inv EXCEPT ![i] =
                [called EXCEPT !.state = "pending", !.http = "pending",
                               !.requests = <<Request(updateUrl, "PUT", requestBody)>>]]
    /\ UNCHANGED <<site, apiToken, limit>>

\* .then(function(response) {...}) of performAction()
performActionThen(r, body) ==
    [r EXCEPT !.state = "resolved", !.value = Response(body)]

\* Mutant: the catch handler passes the error on
performActionCatch_rethrow(r, error) ==
    [r EXCEPT !.state = "rejected", !.value = error]

\* .catch(function(error) {...}) of performAction()
performActionCatch(r, error) ==
    [r EXCEPT !.state = "resolved", !.value = Undefined]

performActionFulfilled(i, body) ==
    /\ inv[i].kind = "performAction"
    /\ inv[i].http = "pending"
    /\ inv' = [inv EXCEPT ![i] =
            performActionThen([@ EXCEPT !.http = "ok", !.reply = Response(body)],
                              body)]
    /\ UNCHANGED <<site, apiToken, limit>>

performActionRejected(i, message) ==
    /\ inv[i].kind = "performAction"
    /\ inv[i].http = "pending"
    /\ inv' = [inv EXCEPT ![i] =
            performActionCatch([@ EXCEPT !.http = "failed", !.reply = Err(message)],
                               Err(message))]
    /\ UNCHANGED <<site, apiToken, limit>>

----------------------------------------------------------------------------
\* The host acts on an item it holds: the conversion of a server entry, with
\* the entry's id as the action value
Next ==
    \/ \E s \in Sites, t \in Tokens, l \in Limits : SetConfig(s, t, l)
    \/ \E i \in Slots : Release(i)
    \/ \E i \in Slots : verify(i)
    \/ \E i \in Slots, body \in UserBodies, m \in ParseErrorMessages :
            verifyFulfilled(i, body, m)
    \/ \E i \in Slots, m \in ErrorMessages : verifyRejected(i, m)
    \/ \E i \in Slots, now \in Clock : load(i, now)
    \/ \E i \in Slots, body \in EntriesBodies, m \in ParseErrorMessages :
            loadFulfilled(i, body, m)
    \/ \E i \in Slots, m \in FailureMessages : loadRejected(i, m)
    \/ \E i \in Slots, a \in ActionIds, e \in Entries :
            performAction(i, a, ToStr(Get(e, "id")), convertEntryToItem(e))
    \/ \E i \in Slots, body \in UpdateBodies : performActionFulfilled(i, body)
    \/ \E i \in Slots, m \in FailureMessages : performActionRejected(i, m)

Spec == Init /\ [][Next]_vars

TypeOK ==
    /\ site \in Sites
    /\ apiToken \in Tokens
    /\ limit \in Limits
    /\ \A i \in Slots :
        /\ inv[i].kind \in {"none", "verify", "load", "performAction"}
        /\ inv[i].state \in {"idle", "pending", "resolved", "rejected"}
        /\ inv[i].http \in {"none", "pending", "ok", "failed"}

----------------------------------------------------------------------------
\* Claims

\* The entries array of a parsed entries response (empty when absent)
EntriesOf(body) ==
    IF "entries" \in DOMAIN body.obj THEN body.obj["entries"].v ELSE <<>>

\* The invocations of load() that handed back an item array
LoadedSlots ==
    {i \in Slots : inv[i].kind = "load" /\ inv[i].state = "resolved"}

\* C1: a verify() call made while site or apiToken is empty resolves at once
\* and issues no HTTP request and no processVerification, processError or
\* processResults call; it changes nothing else (no other invocation, no
\* configuration), so repeated calls accumulate nothing.
C1_VerifyIncompleteNoEffects ==
    [][\A i \in Slots :
        (inv[i].kind = "none" /\ inv'[i].kind = "verify"
            /\ (site = "" \/ apiToken = ""))
        => /\ inv'[i].state = "resolved"
           /\ inv'[i].http = "none"
           /\ inv'[i].requests = <<>>
           /\ inv'[i].verifications = <<>>
           /\ inv'[i].errors = <<>>
           /\ inv'[i].results = <<>>
           /\ \A j \in Slots \ {i} : inv'[j] = inv[j]
           /\ UNCHANGED <<site, apiToken, limit>>]_vars

C1_Witness ==
    \E i \in Slots :
        /\ inv[i].kind = "verify"
        /\ inv[i].state = "resolved"
        /\ inv[i].requests = <<>>
        /\ site # ""
        /\ apiToken = ""

\* C2: when the HTTP call of load() fails, load() calls processError once with
\* a message that puts a prefix before the error text, and issues no second
\* request.
C2_LoadFailureReported ==
    \A i \in Slots :
        (inv[i].kind = "load" /\ inv[i].http = "failed")
        => /\ Len(inv[i].requests) = 1
           /\ Len(inv[i].errors) = 1
           /\ LET text == inv[i].errors[1]
                  cause == inv[i].reply.message
              IN /\ Len(text) > Len(cause)
                 /\ SubSeq(text, Len(text) - Len(cause) + 1, Len(text)) = cause

\* C3: whatever the action identifier and whatever the outcome of the HTTP
\* call, the promise of performAction() is never rejected, is resolved once
\* the call has settled, and processError is never called.
C3_PerformActionNeverFails ==
    \A i \in Slots :
        inv[i].kind = "performAction"
        => /\ inv[i].state \in {"pending", "resolved"}
           /\ inv[i].http # "pending" => inv[i].state = "resolved"
           /\ inv[i].errors = <<>>

C3_Witness ==
    \E i \in Slots :
        /\ inv[i].kind = "performAction"
        /\ inv[i].http = "failed"
        /\ inv[i].state = "resolved"

\* C4: when the user-info call of verify() fails, processError receives
\* exactly one message, chosen from the error text: "401" first, then "404",
\* then "timeout", then the wrapped error text, and a fixed text when the
\* error text is empty.
C4_VerifyFailureMessage ==
    \A i \in Slots :
        (inv[i].kind = "verify" /\ inv[i].http = "failed")
        => LET text == inv[i].reply.message
           IN inv[i].errors =
                << CASE Includes(text, "401") ->
                          "Authentication failed. Please check your API token."
                     [] ~Includes(text, "401") /\ Includes(text, "404") ->
                          "Miniflux instance not found. Please check your instance URL."
                     [] ~Includes(text, "401") /\ ~Includes(text, "404")
                            /\ Includes(text, "timeout") ->
                          "Request timeout. Please check your internet connection."
                     [] ~Includes(text, "401") /\ ~Includes(text, "404")
                            /\ ~Includes(text, "timeout") /\ text # "" ->
                          "Connection error: " \o text
                     [] OTHER -> "Failed to connect to Miniflux" >>

C4_Witness ==
    \E i \in Slots :
        /\ inv[i].kind = "verify"
        /\ inv[i].http = "failed"
        /\ Includes(inv[i].reply.message, "404")
        /\ Includes(inv[i].reply.message, "401")
        /\ inv[i].errors = <<"Authentication failed. Please check your API token.">>

\* C5: a load() call made while site or apiToken is empty issues no request
\* and reports an error to the host.
C5_LoadIncompleteFailsLoudly ==
    [][\A i \in Slots :
        (inv[i].kind = "none" /\ inv'[i].kind = "load"
            /\ (site = "" \/ apiToken = ""))
        => /\ inv'[i].requests = <<>>
           /\ Len(inv'[i].errors) >= 1]_vars

\* C6: when the entries request of load() succeeds, processResults is called
\* exactly once, with the array of converted items.
C6_LoadCallsProcessResults ==
    \A i \in LoadedSlots :
        /\ Len(inv[i].results) = 1
        /\ inv[i].results[1] = inv[i].value

\* C7: for a parsed response with entries e1..en, load() yields exactly n
\* items, the k-th being the conversion of e_k; a response without entries
\* array, or with an empty one, yields the empty array and no error.
C7_LoadPreservesOrder ==
    \A i \in Slots :
        (inv[i].kind = "load" /\ inv[i].http = "ok"
            /\ inv[i].reply.v.json = "object")
        => LET es == EntriesOf(inv[i].reply.v)
               items == inv[i].value.v
           IN /\ inv[i].state = "resolved"
              /\ inv[i].value.t = "array"
              /\ inv[i].errors = <<>>
              /\ Len(items) = Len(es)
              /\ \A k \in 1..Len(es) : items[k] = convertEntryToItem(es[k])

C7_Witness ==
    \E i \in LoadedSlots :
        /\ Len(inv[i].value.v) = 2
        /\ inv[i].value.v[1] = convertEntryToItem(entryB)
        /\ inv[i].value.v[2] = convertEntryToItem(entryA)

\* The action set C8 expects for an entry
ExpectedActions(entry) ==
    LET id == ToStr(entry.id)
    IN (IF entry.status.v = "unread"
        THEN "mark_as_read" :> id ELSE "mark_as_unread" :> id)
       @@ (IF entry.starred.v THEN "unstar" :> id ELSE "star" :> id)

\* C8: every item load() produces carries an action set that has exactly one
\* of mark_as_read / mark_as_unread and exactly one of unstar / star, chosen
\* by the entry's status and starred flag, each with the entry id as a string.
C8_ItemActionsReflectState ==
    \A i \in LoadedSlots :
        \A k \in 1..Len(inv[i].value.v) :
            LET item == inv[i].value.v[k].v
                entry == EntriesOf(inv[i].reply.v)[k]
            IN /\ "actions" \in DOMAIN item
               /\ item["actions"] = Obj(ExpectedActions(entry))

\* The action a toggle replaces itself with
Opposite(actionId) ==
    CASE actionId = "mark_as_read" -> "mark_as_unread"
      [] actionId = "mark_as_unread" -> "mark_as_read"
      [] actionId = "star" -> "unstar"
      [] actionId = "unstar" -> "star"
      [] OTHER -> actionId

\* C9: when the HTTP call of performAction() succeeds, the item's action set
\* afterwards holds the opposite of the toggled action instead of the toggled
\* one, and every other action as before.
C9_ActionFlipsItemActions ==
    [][\A i \in Slots :
        (inv[i].kind = "performAction" /\ inv[i].http = "pending"
            /\ inv'[i].http = "ok")
        => LET a == inv[i].actionId
               before == inv[i].item.v
               after == inv'[i].item.v
           IN /\ "actions" \in DOMAIN after
              /\ Opposite(a) \in DOMAIN after["actions"].v
              /\ a \notin DOMAIN after["actions"].v
              /\ "actions" \in DOMAIN before
              /\ \A b \in DOMAIN before["actions"].v \ {a, Opposite(a)} :
                    /\ b \in DOMAIN after["actions"].v
                    /\ after["actions"].v[b] = before["actions"].v[b]]_vars

\* C10: no field of an item load() produces holds undefined.
C10_NoUndefinedField ==
    \A i \in LoadedSlots :
        \A k \in 1..Len(inv[i].value.v) :
            \A f \in DOMAIN inv[i].value.v[k].v :
                inv[i].value.v[k].v[f] # Undefined

\* The category filter settings of the host (comma-separated category ids)
CategoryFilters == {"", "0", "1,5"}

\* C11: whatever category filter the host holds, the URL of the entries
\* request has no category_id parameter when the filter is "0" or empty, and
\* has category_id=1 and category_id=5 when the filter is "1,5".
C11_CategoryIdParameters ==
    \A i \in Slots :
        inv[i].kind = "load"
        => \A categories \in CategoryFilters :
            LET url == inv[i].requests[1].url
            IN /\ categories \in {"", "0"} => ~Includes(url, "category_id")
               /\ categories = "1,5" =>
                    /\ Includes(url, "&category_id=1")
                    /\ Includes(url, "&category_id=5")

\* C12: an invocation of verify(), load() or performAction() issues at most
\* one HTTP request, also after the request has failed or succeeded.
C12_AtMostOneRequest ==
    \A i \in Slots : Len(inv[i].requests) <= 1

C12_Witness ==
    \E i \in Slots :
        /\ inv[i].kind = "verify"
        /\ inv[i].http = "failed"
        /\ inv[i].state = "rejected"
        /\ Len(inv[i].requests) = 1

----------------------------------------------------------------------------
\* The item identifier, on entries whose urls and ids are near one another

UriUrls == {"https://a/", "https://a/1", "https://a/#1", "https://a/#"}
UriIds == {1, 2, 11, 12}
UriEntries ==
    {[id |-> Num(n), url |-> Str(u), published_at |-> Str("2026-01-14")] :
        n \in UriIds, u \in UriUrls}
UriBodies ==
    {ObjBody([total |-> Num(2), entries |-> Arr(es)]) :
        es \in [1..2 -> UriEntries]}

InitUri ==
    /\ site = "https://m.io"
    /\ apiToken = "tok"
    /\ limit = Str("")
    /\ inv = [i \in Slots |-> Idle]

NextUri ==
    \/ \E i \in Slots, now \in Clock : load(i, now)
    \/ \E i \in Slots, body \in UriBodies, m \in ParseErrorMessages :
            loadFulfilled(i, body, m)
    \/ \E i \in Slots : Release(i)

SpecUri == InitUri /\ [][NextUri]_vars

\* C13: two entries of a response get the same item identifier exactly when
\* they have the same url and the same (integer) id.
C13_UriInjective ==
    \A i \in LoadedSlots :
        LET es == EntriesOf(inv[i].reply.v)
            items == inv[i].value.v
        IN \A j, k \in 1..Len(es) :
            (items[j].v["uri"] = items[k].v["uri"])
            <=> (es[j].url = es[k].url /\ es[j].id = es[k].id)

C13_Witness ==
    \E i \in LoadedSlots :
        LET es == EntriesOf(inv[i].reply.v)
            items == inv[i].value.v
        IN /\ es[1].url = Str("https://a/1") /\ es[1].id = Num(2)
           /\ es[2].url = Str("https://a/") /\ es[2].id = Num(12)
           /\ items[1].v["uri"] = Str("https://a/1#2")
           /\ items[2].v["uri"] = Str("https://a/#12")

\* The display name C14 expects for a parsed user-info object
ExpectedDisplayName(obj) ==
    IF "username" \in DOMAIN obj /\ obj["username"] # Str("")
    THEN "Miniflux (" \o obj["username"].v \o ")"
    ELSE "Miniflux Feed"

\* C14 as stated: whenever the user-info call of verify() succeeds,
\* processError is not called and processVerification is called exactly once,
\* with "Miniflux (<username>)" or, without username, "Miniflux Feed".
C14_VerifySuccessSignals ==
    \A i \in Slots :
        (inv[i].kind = "verify" /\ inv[i].http = "ok")
        => /\ inv[i].errors = <<>>
           /\ Len(inv[i].verifications) = 1
           /\ inv[i].verifications[1] =
                [displayName |-> ExpectedDisplayName(inv[i].reply.v.obj)]

\* C14 as amended: when the user-info call of verify() succeeds and its body
\* parses to a JSON object, processError is not called and processVerification
\* is called exactly once, with "Miniflux (<username>)" or, without username,
\* "Miniflux Feed".
C14_VerifyParsedSuccessSignals ==
    \A i \in Slots :
        (inv[i].kind = "verify" /\ inv[i].http = "ok"
            /\ inv[i].reply.v.json = "object")
        => /\ inv[i].errors = <<>>
           /\ Len(inv[i].verifications) = 1
           /\ inv[i].verifications[1] =
                [displayName |-> ExpectedDisplayName(inv[i].reply.v.obj)]

C14_Witness ==
    \E i \in Slots :
        /\ inv[i].kind = "verify"
        /\ inv[i].http = "ok"
        /\ inv[i].reply.v.json = "object"
        /\ "username" \in DOMAIN inv[i].reply.v.obj
        /\ inv[i].verifications = <<[displayName |-> "Miniflux (alice)"]>>

\* The request C15 expects of a read/unread toggle
IsStatusUpdate(request, base, actionValue, status) ==
    /\ request.method = "PUT"
    /\ request.url = base \o "/v1/entries"
    /\ request.body.t = "object"
    /\ request.body.v.status = status
    /\ Len(request.body.v.entry_ids) = 1
    /\ request.body.v.entry_ids[1].t = "number"
    /\ ToString(request.body.v.entry_ids[1].v) = actionValue

\* The request C15 expects of a star/unstar toggle
IsBookmarkToggle(request, base, actionValue) ==
    /\ request.method = "PUT"
    /\ request.url = base \o "/v1/entries/" \o actionValue \o "/bookmark"
    /\ request.body.t \in {"null", "undefined"}

\* C15 as stated: a performAction() call with mark_as_read or mark_as_unread
\* issues PUT <base>/v1/entries with body {entry_ids: [id], status: "read" or
\* "unread"}; with star or unstar it issues PUT <base>/v1/entries/<id>/bookmark
\* without body.
C15_ActionDispatch ==
    [][\A i \in Slots :
        (inv[i].kind = "none" /\ inv'[i].kind = "performAction")
        => LET a == inv'[i].actionId
               v == inv'[i].actionValue
               base == StripTrailingSlash(site)
               sent == inv'[i].requests
           IN /\ a = "mark_as_read" =>
                    Len(sent) = 1 /\ IsStatusUpdate(sent[1], base, v, "read")
              /\ a = "mark_as_unread" =>
                    Len(sent) = 1 /\ IsStatusUpdate(sent[1], base, v, "unread")
              /\ a \in {"star", "unstar"} =>
                    Len(sent) = 1 /\ IsBookmarkToggle(sent[1], base, v)]_vars

\* C15 as amended: a performAction() call with mark_as_read issues
\* PUT <base>/v1/entries with body {entry_ids: [id], status: "read"}; with any
\* other action name it issues no request and resolves at once.
C15_OnlyMarkAsReadDispatched ==
    [][\A i \in Slots :
        (inv[i].kind = "none" /\ inv'[i].kind = "performAction")
        => LET a == inv'[i].actionId
               v == inv'[i].actionValue
               base == StripTrailingSlash(site)
               sent == inv'[i].requests
           IN /\ a = "mark_as_read" =>
                    Len(sent) = 1 /\ IsStatusUpdate(sent[1], base, v, "read")
              /\ a # "mark_as_read" =>
                    sent = <<>> /\ inv'[i].state = "resolved"]_vars

C15_Witness ==
    \E i \in Slots :
        /\ inv[i].kind = "performAction"
        /\ inv[i].actionId = "mark_as_read"
        /\ inv[i].actionValue = "10"
        /\ Len(inv[i].requests) = 1
        /\ inv[i].requests[1].url = "https://m.io/v1/entries"
        /\ inv[i].requests[1].body.v.entry_ids = <<Num(10)>>

\* C16: a verify() invocation that sent its request and saw it settle has
\* emitted exactly one host signal, processVerification or processError, once;
\* a fulfilled call whose body cannot be parsed ends in processError; and the
\* promise is rejected exactly when processError was the signal.
C16_VerifyExactlyOneSignal ==
    \A i \in Slots :
        (inv[i].kind = "verify" /\ inv[i].http \in {"ok", "failed"})
        => /\ Len(inv[i].verifications) + Len(inv[i].errors) = 1
           /\ inv[i].results = <<>>
           /\ inv[i].state \in {"resolved", "rejected"}
           /\ inv[i].state = "rejected" <=> Len(inv[i].errors) = 1
           /\ (inv[i].http = "ok" /\ inv[i].reply.v.json = "invalid")
                => Len(inv[i].errors) = 1

C16_Witness ==
    \E i \in Slots :
        /\ inv[i].kind = "verify"
        /\ inv[i].http = "ok"
        /\ inv[i].reply.v.json = "invalid"
        /\ inv[i].verifications = <<>>
        /\ Len(inv[i].errors) = 1
        /\ inv[i].state = "rejected"

----------------------------------------------------------------------------
\* Several invocations in flight at once, the host changing the configuration
\* while requests are pending

\* Number of invocations in flight at once.
MaxInFlight == 2

ConcSlots == 1..MaxInFlight

ConcConfigs ==
    {<<"", "", Str("")>>,
     <<"https://m.io/", "tok", Str("")>>,
     <<"https://m.io", "tok", Str("50")>>}
ConcUserBodies == {InvalidBody, ObjBody([username |-> Str("alice")])}
ConcEntriesBodies ==
    {InvalidBody,
     ObjBody([total |-> Num(2), entries |-> Arr(<<entryA, entryB>>)])}
ConcErrorMessages == {"HTTP 401", "timeout"}
\* One engine: the same body gives the same SyntaxError message
ConcSyntaxMessage == "JSON Parse error"

InitConc ==
    /\ site = ""
    /\ apiToken = ""
    /\ limit = Str("")
    /\ inv = [i \in ConcSlots |-> Idle]

NextConc ==
    \/ \E c \in ConcConfigs : SetConfig(c[1], c[2], c[3])
    \/ \E i \in ConcSlots : Release(i)
    \/ \E i \in ConcSlots : verify(i)
    \/ \E i \in ConcSlots, body \in ConcUserBodies :
            verifyFulfilled(i, body, ConcSyntaxMessage)
    \/ \E i \in ConcSlots, m \in ConcErrorMessages : verifyRejected(i, m)
    \/ \E i \in ConcSlots, now \in Clock : load(i, now)
    \/ \E i \in ConcSlots, body \in ConcEntriesBodies :
            loadFulfilled(i, body, ConcSyntaxMessage)
    \/ \E i \in ConcSlots : loadRejected(i, "timeout")
    \/ \E i \in ConcSlots, a \in {"mark_as_read", "star"} :
            performAction(i, a, ToStr(entryA.id), convertEntryToItem(entryA))
    \/ \E i \in ConcSlots, body \in UpdateBodies : performActionFulfilled(i, body)
    \/ \E i \in ConcSlots : performActionRejected(i, "timeout")

SpecConc == InitConc /\ [][NextConc]_vars

\* Two invocations of the same entry point with the same arguments that sent
\* the same request (what they read of the configuration when they started)
\* and got the same response
SameCallSameResponse(i, j) ==
    /\ inv[i].kind # "none"
    /\ inv[i].kind = inv[j].kind
    /\ inv[i].actionId = inv[j].actionId
    /\ inv[i].actionValue = inv[j].actionValue
    /\ inv[i].requests = inv[j].requests
    /\ inv[i].http # "pending"
    /\ inv[i].http = inv[j].http
    /\ inv[i].reply = inv[j].reply

\* C17: invocations share no state and read the configuration only when they
\* start. A step changes one invocation only, and a step of an invocation that
\* has started changes neither the configuration nor its request; and two
\* invocations that sent the same request and got the same response have the
\* same host signals, state and result, whatever the configuration was when
\* their callbacks ran and however the callbacks interleaved.
C17_InvocationsIndependent ==
    /\ [](\A i, j \in ConcSlots : SameCallSameResponse(i, j) => inv[i] = inv[j])
    /\ [][\A i \in ConcSlots :
            inv'[i] # inv[i]
            => /\ \A j \in ConcSlots \ {i} : inv'[j] = inv[j]
               /\ UNCHANGED <<site, apiToken, limit>>
               /\ inv[i].http = "pending" =>
                    /\ inv'[i].requests = inv[i].requests
                    /\ inv'[i].kind = inv[i].kind]_vars

C17_Witness ==
    \E i, j \in ConcSlots :
        /\ i # j
        /\ SameCallSameResponse(i, j)
        /\ inv[i].kind = "verify"
        /\ inv[i].http = "ok"
        /\ inv[i].verifications = <<[displayName |-> "Miniflux (alice)"]>>
        /\ inv[j].verifications = <<[displayName |-> "Miniflux (alice)"]>>
        /\ site = ""

----------------------------------------------------------------------------
\* The action dispatcher alone: the host changes the configuration and acts
\* on items

NextAct ==
    \/ \E s \in Sites, t \in Tokens, l \in Limits : SetConfig(s, t, l)
    \/ \E i \in Slots : Release(i)
    \/ \E i \in Slots, a \in ActionIds, e \in Entries :
            performAction(i, a, ToStr(Get(e, "id")), convertEntryToItem(e))
    \/ \E i \in Slots, body \in UpdateBodies : performActionFulfilled(i, body)
    \/ \E i \in Slots, m \in FailureMessages : performActionRejected(i, m)

SpecAct == Init /\ [][NextAct]_vars

====
